---- MODULE Spec2Model ----
(***************************************************************************)
(* NiftyJoiner (src/NiftyJoiner.py): the batch join engine                 *)
(* (join_groups_batch / join_single_group / get_group_info), its callers   *)
(* (main in batch mode, run_interactive_mode / join_groups_interactive)    *)
(* and the account operations (login_account, delete_account).             *)
(*                                                                         *)
(* Python strings that the code takes apart (links, session names,         *)
(* settings keys) are sequences of one-character strings; strings that the *)
(* code only builds and compares (error texts, titles) are TLA+ strings.   *)
(* None is the value NoneStr / NoneInt / NoSession of the matching type.   *)
(* JoinResult.join_time (datetime.now() at entry) is not modelled: no      *)
(* branch of the code reads it.                                            *)
(***************************************************************************)
EXTENDS Integers, Sequences, FiniteSets, TLC

VARIABLES
    mode,             \* "batch" (main --batch-mode) or "interactive"
    pc,               \* position of the single asyncio task
    cli_session,      \* main's --session option (NoSession when absent)
    client,           \* TelegramGroupJoiner.client
    orphaned,         \* sessions of the connected clients no longer referred to
    current_account,  \* TelegramGroupJoiner.current_account
    credentials,      \* content of config/credentials.json
    settings,         \* content of config/settings.json
    session_files,    \* sessions whose <name>.session file holds an authorization
    links_file,       \* the links file: whether it exists, and its lines
    member,           \* gateway side: groups the account is a member of
    calls,            \* gateway side: requests received during the current run
    in_flight,        \* gateway side: requests received and not yet answered
    links,            \* join_groups_batch: links
    base_interval,    \* join_groups_batch: base_interval (minutes)
    randomize,        \* join_groups_batch: randomize
    i,                \* join_groups_batch: loop index
    results,          \* join_groups_batch: results
    delay_seconds,    \* join_groups_batch: delay_seconds of the last sleep
    sleeps,           \* number of asyncio.sleep calls of the current run
    info,             \* join_single_group: (group_name, member_count)
    have_results,     \* the caller's variable `results` has been assigned
    caller_results,   \* the caller's variable `results`
    summary,          \* what display_results_summary printed
    saved,            \* what save_results wrote
    cancelled,        \* where the run was cancelled ("" when it was not)
    console           \* last report printed by main / run_interactive_mode

vars == <<mode, pc, cli_session, client, orphaned, current_account, credentials,
          settings, session_files, links_file, member, calls, in_flight, links,
          base_interval, randomize, i, results, delay_seconds, sleeps, info,
          have_results, caller_results, summary, saved, cancelled,
          console>>

appVars == <<client, orphaned, current_account, credentials, settings,
             session_files>>
runVars == <<links, base_interval, randomize, i, results, delay_seconds,
             sleeps, info, calls, in_flight>>
outVars == <<have_results, caller_results, summary, saved>>

----------------------------------------------------------------------------
(* Bounds *)

MaxLinks == 2

----------------------------------------------------------------------------
(* Python values *)

NoneStr == "<None>"
NoneInt == -1
NoSession == <<>>

(* str methods, on sequences of characters *)

\* s.split('/')[-1]
RECURSIVE LastSegment(_)
LastSegment(s) ==
    IF s = <<>> THEN <<>>
    ELSE IF s[Len(s)] = "/" THEN <<>>
    ELSE Append(LastSegment(SubSeq(s, 1, Len(s) - 1)), s[Len(s)])

\* sub in s
Contains(s, sub) ==
    \E k \in 1..(Len(s) - Len(sub) + 1) : SubSeq(s, k, k + Len(sub) - 1) = sub

\* s.startswith(p)
StartsWith(s, p) == Len(s) >= Len(p) /\ SubSeq(s, 1, Len(p)) = p

\* s.replace(old, new), old non-empty
RECURSIVE Replace(_, _, _)
Replace(s, old, new) ==
    IF Len(s) < Len(old) THEN s
    ELSE IF StartsWith(s, old)
         THEN new \o Replace(SubSeq(s, Len(old) + 1, Len(s)), old, new)
         ELSE <<s[1]>> \o Replace(Tail(s), old, new)

\* s.strip() for the whitespace characters space, tab, CR
Whitespace == {" ", "\t", "\r"}
RECURSIVE LStrip(_)
LStrip(s) == IF s # <<>> /\ s[1] \in Whitespace THEN LStrip(Tail(s)) ELSE s
RECURSIVE RStrip(_)
RStrip(s) ==
    IF s # <<>> /\ s[Len(s)] \in Whitespace
    THEN RStrip(SubSeq(s, 1, Len(s) - 1)) ELSE s
Strip(s) == LStrip(RStrip(s))

JOINCHAT == <<"j", "o", "i", "n", "c", "h", "a", "t">>
JOINCHAT_SLASH == JOINCHAT \o <<"/">>
PLUS == <<"+">>
HASH == <<"#">>

----------------------------------------------------------------------------
(* Inputs *)

PublicLink   == <<"t", ".", "m", "e", "/", "a", "l", "f", "a">>
PlusLink     == <<"t", ".", "m", "e", "/", "+", "b", "e", "t", "a">>
JoinchatLink == <<"t", ".", "m", "e", "/">> \o JOINCHAT_SLASH \o <<"A", "B", "C">>
\* the links of the files of the batch-mode program (SpecLinks goes
\* through the link strings, the old joinchat format included)
Links == {PublicLink, PlusLink}

SeqsUpTo(S, n) == UNION {[1..k -> S] : k \in 0..n}

\* --interval / "Enter base interval in minutes"
Intervals == {1, 5}
\* random.random(), in halves: 0 and 0.5
RandomHalves == {0, 1}
\* FloodWaitError.seconds
FloodSeconds == {120}
\* str(e) of the exceptions that have no except clause of their own
OtherMessages == {"Timeout"}

SessionA == <<"a">>
SessionB == <<"a", "_", "b">>
Sessions == {SessionA, SessionB}
ApiIds == {7001}

----------------------------------------------------------------------------
(* Session Gateway: the Telethon client and the Telegram side behind it *)

NoClient == [session |-> NoSession, connected |-> FALSE, authorized |-> FALSE]
HasClient == client # NoClient                  \* `if self.client` is truthy
Authenticated == HasClient /\ client.connected /\ client.authorized

\* what entity.title and full_chat.participants_count give for any group
Entity == [title |-> "Some Group", participants_count |-> 42]

NoInfo == [group_name |-> NoneStr, member_count |-> NoneInt]

Signal(t, sec, m, ch) == [type |-> t, seconds |-> sec, msg |-> m, chats |-> ch]

\* what `await self.client(request)` can do for a join request
GatewaySignals(req) ==
    IF ~HasClient
    THEN {Signal("Exception", 0, "'NoneType' object is not callable", <<>>)}
    ELSE IF ~Authenticated
    THEN {Signal("Exception", 0, "Unauthorized", <<>>)}
    ELSE
      {Signal("Success", 0, "", ch) :
          ch \in IF req.op = "ImportChatInviteRequest"
                 THEN {<<>>, <<Entity.title>>} ELSE {<<>>}}
      \cup (IF <<req.op, req.key>> \in member
            THEN {Signal("UserAlreadyParticipantError", 0, "", <<>>)} ELSE {})
      \cup {Signal("FloodWaitError", w, "", <<>>) : w \in FloodSeconds}
      \cup {Signal(t, 0, "", <<>>) :
              t \in {"InviteHashExpiredError", "ChannelPrivateError",
                     "UserBannedInChannelError"}}
      \cup {Signal("Exception", 0, m, <<>>) : m \in OtherMessages}

\* the membership after the gateway answered sig to req (atomic per call)
MemberAfter(req, sig) ==
    IF sig.type = "Success" THEN member \cup {<<req.op, req.key>>} ELSE member

----------------------------------------------------------------------------
(* join_single_group and get_group_info *)

JoinResult(l, s, e, g, m) ==
    [link |-> l, success |-> s, error |-> e, group_name |-> g, member_count |-> m]

\* (a variant that looks up every link)
GroupInfoIsPrivate_Never(link) == FALSE

\* get_group_info, line 289: no lookup for this link
GroupInfoIsPrivate(link) ==
    Contains(link, JOINCHAT) \/ StartsWith(LastSegment(link), PLUS)

\* (a variant that forgets the old joinchat format)
IsPrivate_OnlyPlus(link) == StartsWith(LastSegment(link), PLUS)

\* (a variant that looks for "joinchat" in channel_part)
IsPrivate_InSegment(link) ==
    Contains(LastSegment(link), JOINCHAT) \/ StartsWith(LastSegment(link), PLUS)

\* join_single_group, line 310: the link is joined by its invite hash
IsPrivate(link) == Contains(link, JOINCHAT) \/ StartsWith(LastSegment(link), PLUS)

\* lines 313-315
InviteHash(link) ==
    LET invite_hash == Replace(LastSegment(link), PLUS, <<>>)
    IN  IF Contains(link, JOINCHAT)
        THEN Replace(invite_hash, JOINCHAT_SLASH, <<>>)
        ELSE invite_hash

\* (a variant with the two requests exchanged)
JoinRequest_Swapped(link) ==
    IF IsPrivate(link)
    THEN [op |-> "JoinChannelRequest", key |-> LastSegment(link)]
    ELSE [op |-> "ImportChatInviteRequest", key |-> InviteHash(link)]

\* the request join_single_group sends for link (lines 310-324)
JoinRequest(link) ==
    IF IsPrivate(link)
    THEN [op |-> "ImportChatInviteRequest", key |-> InviteHash(link)]
    ELSE [op |-> "JoinChannelRequest", key |-> LastSegment(link)]

\* what get_entity / GetFullChannelRequest can do (lines 292-293); without
\* a client `self.client.get_entity` raises AttributeError
GroupInfoSignals ==
    IF Authenticated THEN {"Success", "FloodWaitError", "Exception"}
    ELSE {"Exception"}

\* (a variant whose handler lets the rate-limit error through)
GroupInfoCatches_NoFlood(type) ==
    type \notin {"CancelledError", "KeyboardInterrupt", "FloodWaitError"}

\* line 295, `except Exception`: the exception types get_group_info catches
GroupInfoCatches(type) == type \notin {"CancelledError", "KeyboardInterrupt"}

\* get_group_info: ok says whether get_entity and GetFullChannelRequest
\* both returned; every exception gives (None, None)
GetGroupInfoResult(link, ok) ==
    IF GroupInfoIsPrivate(link) THEN NoInfo
    ELSE IF ok /\ Authenticated
    THEN [group_name |-> Entity.title, member_count |-> Entity.participants_count]
    ELSE NoInfo

\* (a variant without the FloodWaitError import: the name is not caught)
ExceptClause_FloodUncaught(type) ==
    CASE type = "UserAlreadyParticipantError" -> "UserAlreadyParticipantError"
      [] type = "FloodWaitError" -> "uncaught"
      [] type \in {"InviteHashExpiredError", "ChannelPrivateError"} -> "InvalidLink"
      [] type = "UserBannedInChannelError" -> "UserBannedInChannelError"
      [] type \in {"CancelledError", "KeyboardInterrupt"} -> "uncaught"
      [] OTHER -> "Exception"

\* (a variant without the clause for UserAlreadyParticipantError)
ExceptClause_NoAlready(type) ==
    CASE type = "FloodWaitError" -> "FloodWaitError"
      [] type \in {"InviteHashExpiredError", "ChannelPrivateError"} -> "InvalidLink"
      [] type = "UserBannedInChannelError" -> "UserBannedInChannelError"
      [] type \in {"CancelledError", "KeyboardInterrupt"} -> "uncaught"
      [] OTHER -> "Exception"

\* the except clause of join_single_group that catches an exception type
\* ("uncaught": not an Exception, it leaves join_single_group)
ExceptClause(type) ==
    CASE type = "UserAlreadyParticipantError" -> "UserAlreadyParticipantError"
      [] type = "FloodWaitError" -> "FloodWaitError"
      [] type \in {"InviteHashExpiredError", "ChannelPrivateError"} -> "InvalidLink"
      [] type = "UserBannedInChannelError" -> "UserBannedInChannelError"
      [] type \in {"CancelledError", "KeyboardInterrupt"} -> "uncaught"
      [] OTHER -> "Exception"

\* the clause of join_single_group that builds the JoinResult: "return"
\* is the return of the try body (line 328)
Clause(sig) == IF sig.type = "Success" THEN "return" ELSE ExceptClause(sig.type)

\* (a variant whose FloodWaitError clause was copied from the one above it)
ResultSuccess_Flood(clause) ==
    clause \in {"return", "UserAlreadyParticipantError", "FloodWaitError"}

\* success= of the JoinResult each clause builds
ResultSuccess(clause) == clause \in {"return", "UserAlreadyParticipantError"}

\* (a variant whose rate-limit text leaves out e.seconds)
ResultError_NoSeconds(clause, sig) ==
    CASE clause = "return" -> NoneStr
      [] clause = "UserAlreadyParticipantError" -> "Already a member"
      [] clause = "FloodWaitError" -> "Rate limited"
      [] clause = "InvalidLink" -> "Invalid or expired link"
      [] clause = "UserBannedInChannelError" -> "Banned from this group"
      [] OTHER -> sig.msg

\* error= of the JoinResult each clause builds
ResultError(clause, sig) ==
    CASE clause = "return" -> NoneStr
      [] clause = "UserAlreadyParticipantError" -> "Already a member"
      [] clause = "FloodWaitError" ->
            "Rate limited. Wait " \o ToString(sig.seconds) \o " seconds"
      [] clause = "InvalidLink" -> "Invalid or expired link"
      [] clause = "UserBannedInChannelError" -> "Banned from this group"
      [] OTHER -> sig.msg

\* (a variant without lines 320-321)
ResultGroupName_NotCaptured(link, inf, sig) == inf.group_name

\* group_name at the time the JoinResult is built (lines 304, 320-321)
ResultGroupName(link, inf, sig) ==
    IF sig.type = "Success" /\ IsPrivate(link) /\ sig.chats # <<>>
    THEN sig.chats[1] ELSE inf.group_name

\* the JoinResult join_single_group returns, given what get_group_info
\* returned (inf) and what the join request did (sig)
JoinSingleGroup(link, inf, sig) ==
    JoinResult(link, ResultSuccess(Clause(sig)), ResultError(Clause(sig), sig),
               ResultGroupName(link, inf, sig), inf.member_count)

\* (a variant that keeps only the successful results)
AppendResult_OnlySuccess(rs, r) == IF r.success THEN Append(rs, r) ELSE rs

\* (a variant that puts the newest result first)
AppendResult_Front(rs, r) == <<r>> \o rs

\* results.append(result), line 459
AppendResult(rs, r) == Append(rs, r)

\* (a variant that stays on a link until it is joined)
NextIndex_Retry(idx, r) == IF r.success THEN idx + 1 ELSE idx

\* the loop index after the body ran for index idx with result r:
\* `for i, link in enumerate(links)` goes on whatever r is
NextIndex(idx, r) == idx + 1

----------------------------------------------------------------------------
(* ConfigManager and the files *)

\* a datetime: its date and time of day as isoformat prints them, and its
\* microsecond; NoDate stands for None
NoDate == [date |-> "", time |-> "", microsecond |-> 0]

NoAccount ==
    [session_name |-> NoSession, api_id |-> 0, api_hash |-> NoneStr,
     phone |-> NoneStr, first_name |-> NoneStr, username |-> NoneStr,
     last_used |-> NoDate]

\* what get_me() returns for the account behind a session
Me(s) == [phone |-> "+100", first_name |-> "Ann", username |-> "ann"]

ApiHash(id) == "hash-" \o ToString(id)
\* datetime.now()
Now == [date |-> "2024-01-01", time |-> "00:00:00", microsecond |-> 250000]

AccountInfo(s, id, me) ==
    [session_name |-> s, api_id |-> id, api_hash |-> ApiHash(id),
     phone |-> me.phone, first_name |-> me.first_name,
     username |-> me.username, last_used |-> Now]

\* the six digits isoformat prints after the point
Pow10(k) == IF k = 0 THEN 1 ELSE IF k = 1 THEN 10 ELSE IF k = 2 THEN 100
            ELSE IF k = 3 THEN 1000 ELSE IF k = 4 THEN 10000 ELSE 100000
Fraction(us) == [k \in 1..6 |-> (us \div Pow10(6 - k)) % 10]

RECURSIVE DigitsValue(_)
DigitsValue(ds) ==
    IF ds = <<>> THEN 0
    ELSE 10 * DigitsValue(SubSeq(ds, 1, Len(ds) - 1)) + ds[Len(ds)]

\* JSON null in the place of the text of last_used
JsonNull == [date |-> "", time |-> "", fraction |-> <<>>]

\* (a variant that prints whole seconds only)
IsoFormat_Seconds(dt) ==
    [date |-> dt.date, time |-> dt.time, fraction |-> <<>>]

\* datetime.isoformat(): "YYYY-MM-DDTHH:MM:SS", followed by ".ffffff" when
\* the microsecond is not 0; the text is kept as its three parts
IsoFormat(dt) ==
    [date |-> dt.date, time |-> dt.time,
     fraction |-> IF dt.microsecond = 0 THEN <<>>
                  ELSE Fraction(dt.microsecond)]

\* datetime.fromisoformat(text)
FromIsoFormat(text) ==
    [date |-> text.date, time |-> text.time,
     microsecond |-> DigitsValue(text.fraction)]

\* lines 80-87: the entry save_credentials stores under the session name
ToEntry(account) ==
    [api_id |-> account.api_id, api_hash |-> account.api_hash,
     phone |-> account.phone, first_name |-> account.first_name,
     username |-> account.username,
     last_used |-> IF account.last_used # NoDate
                   THEN IsoFormat(account.last_used) ELSE JsonNull]

\* lines 109-117: the AccountInfo get_credentials builds from an entry
FromEntry(s, cred) ==
    [session_name |-> s, api_id |-> cred.api_id, api_hash |-> cred.api_hash,
     phone |-> cred.phone, first_name |-> cred.first_name,
     username |-> cred.username,
     last_used |-> IF cred.last_used # JsonNull
                   THEN FromIsoFormat(cred.last_used) ELSE NoDate]

\* credentials.json: whether the file exists, whether json.load can read
\* it, and the entries by session name when it can
NoEntries == [s \in {} |-> ToEntry(NoAccount)]
NoCredentials == [exists |-> FALSE, valid |-> FALSE, entries |-> NoEntries]
\* the file after open(..., 'w') when nothing more was written
Truncated == [exists |-> TRUE, valid |-> FALSE, entries |-> NoEntries]

\* whether json.load of the file raises
Unreadable(creds) == creds.exists /\ ~creds.valid

\* how far the writing of credentials.json gets: open(..., 'w') raises,
\* json.dump raises after open truncated the file, or all is written
SaveSteps == {"open_failed", "write_failed", "saved"}

\* ConfigManager.save_credentials: the file afterwards
SaveCredentials(creds, account, step) ==
    IF Unreadable(creds) \/ step = "open_failed" THEN creds
    ELSE IF step = "write_failed" THEN Truncated
    ELSE [exists |-> TRUE, valid |-> TRUE,
          entries |-> [s \in DOMAIN creds.entries \cup {account.session_name} |->
                          IF s = account.session_name THEN ToEntry(account)
                          ELSE creds.entries[s]]]

\* ConfigManager.save_credentials: what it returns
SaveCredentialsReturns(creds, step) == ~Unreadable(creds) /\ step = "saved"

\* ConfigManager.get_credentials
GetCredentials(creds, s) ==
    IF creds.exists /\ creds.valid /\ s \in DOMAIN creds.entries
    THEN FromEntry(s, creds.entries[s]) ELSE NoAccount

\* the session names list_saved_accounts returns accounts for
SavedSessions(creds) ==
    IF creds.exists /\ creds.valid THEN DOMAIN creds.entries ELSE {}

\* the template load_group_links writes when the file is missing
Template ==
    << <<"#", " ", "A", "d", "d">>, <<"#", " ", "E", "x">>,
       <<"#", " ", "h", "t", "t", "p", "s">>,
       <<"#", " ", "h", "t", "t", "p", "s">>, <<>> >>

\* (a variant that keeps the line as it is in the file)
RECURSIVE FilterLinks_KeepsRaw(_)
FilterLinks_KeepsRaw(lines) ==
    IF lines = <<>> THEN <<>>
    ELSE LET line == Strip(Head(lines))
         IN  IF line # <<>> /\ ~StartsWith(line, HASH)
             THEN <<Head(lines)>> \o FilterLinks_KeepsRaw(Tail(lines))
             ELSE FilterLinks_KeepsRaw(Tail(lines))

\* lines 415-419: the stripped lines that are non-empty and no comment
RECURSIVE FilterLinks(_)
FilterLinks(lines) ==
    IF lines = <<>> THEN <<>>
    ELSE LET line == Strip(Head(lines))
         IN  IF line # <<>> /\ ~StartsWith(line, HASH)
             THEN <<line>> \o FilterLinks(Tail(lines))
             ELSE FilterLinks(Tail(lines))

\* load_group_links: the links returned
LoadGroupLinks(file) == IF file.exists THEN FilterLinks(file.lines) ELSE <<>>

\* load_group_links: the file afterwards
LinksFileAfterLoad(file) ==
    IF file.exists THEN file ELSE [exists |-> TRUE, lines |-> Template]

----------------------------------------------------------------------------
(* login_account *)

\* how far login_account gets: "before_client" is an exception before the
\* assignment of line 242 (int() of the typed API ID, or the TelegramClient
\* constructor), the next three are exceptions of connect(), of
\* send_code_request() / sign_in(), and of get_me()
LoginSteps == {"before_client", "connect_failed", "sign_in_failed",
               "get_me_failed", "logged_in"}

\* login_account(s): `use_saved` answers "Use saved credentials?", id is the
\* API ID typed otherwise, step is how far the login gets, save how far the
\* writing of credentials.json gets.  pc_ok / pc_fail: where the caller
\* continues.
LoginAccount(s, use_saved, id, step, save, pc_ok, pc_fail) ==
    LET saved_account == GetCredentials(credentials, s)
        from_saved == saved_account # NoAccount /\ use_saved
        api_id == IF from_saved THEN saved_account.api_id ELSE id
        was_authorized == s \in session_files
    IN  /\ step = "sign_in_failed" => ~was_authorized
        /\ client' =
             CASE step = "before_client" -> client
               [] step = "connect_failed" ->
                    [session |-> s, connected |-> FALSE, authorized |-> FALSE]
               [] step = "sign_in_failed" ->
                    [session |-> s, connected |-> TRUE, authorized |-> FALSE]
               [] OTHER ->
                    [session |-> s, connected |-> TRUE, authorized |-> TRUE]
        /\ orphaned' =
             IF step # "before_client" /\ HasClient /\ client.connected
             THEN orphaned \cup {client.session} ELSE orphaned
        /\ session_files' =
             IF step \in {"get_me_failed", "logged_in"}
             THEN session_files \cup {s} ELSE session_files
        /\ current_account' =
             IF step = "logged_in" THEN AccountInfo(s, api_id, Me(s))
             ELSE current_account
        /\ credentials' =
             IF step = "logged_in"
             THEN SaveCredentials(credentials, AccountInfo(s, api_id, Me(s)),
                                  save)
             ELSE credentials
        /\ pc' = IF step = "logged_in" THEN pc_ok ELSE pc_fail
        /\ UNCHANGED settings

----------------------------------------------------------------------------
(* main, batch mode (lines 1121-1138) *)

\* `if not session: return`
MainNoSession ==
    /\ mode = "batch" /\ pc = "main"
    /\ cli_session = NoSession
    /\ pc' = "exit"
    /\ console' = "Session name required for batch mode"
    /\ UNCHANGED <<mode, cli_session, appVars, links_file, member, runVars,
                   outVars, cancelled>>

\* `if not await app.login_account(session): return`
MainLogin ==
    /\ mode = "batch" /\ pc = "main"
    /\ cli_session # NoSession
    /\ \E use_saved \in BOOLEAN, id \in ApiIds, step \in LoginSteps,
          save \in SaveSteps :
          LoginAccount(cli_session, use_saved, id, step, save, "load", "exit")
    /\ console' = IF pc' = "exit" THEN "Login failed" ELSE console
    /\ UNCHANGED <<mode, cli_session, links_file, member, runVars, outVars,
                   cancelled>>

\* (a variant without `if not links: return`)
MainLoadLinks_NoEmptyCheck ==
    /\ mode = "batch" /\ pc = "load"
    /\ links' = LoadGroupLinks(links_file)
    /\ links_file' = LinksFileAfterLoad(links_file)
    /\ pc' = "loop"
    /\ i' = 0 /\ results' = <<>> /\ calls' = <<>> /\ sleeps' = 0
    /\ UNCHANGED <<mode, cli_session, appVars, member, in_flight,
                   base_interval, randomize, delay_seconds, info, outVars,
                   cancelled, console>>

\* `links = await app.load_group_links(links_file); if not links: return`,
\* then the entry of join_groups_batch(links, interval, not no_randomize)
MainLoadLinks ==
    /\ mode = "batch" /\ pc = "load"
    /\ links' = LoadGroupLinks(links_file)
    /\ links_file' = LinksFileAfterLoad(links_file)
    /\ pc' = IF links' = <<>> THEN "exit" ELSE "loop"
    /\ console' = IF links' = <<>> THEN "No links found" ELSE console
    /\ i' = 0 /\ results' = <<>> /\ calls' = <<>> /\ sleeps' = 0
    /\ UNCHANGED <<mode, cli_session, appVars, member, in_flight,
                   base_interval, randomize, delay_seconds, info, outVars,
                   cancelled>>

----------------------------------------------------------------------------
(* join_groups_batch (lines 428-475) *)

\* (a variant that also waits before the first link)
NeedsDelay_Always(idx) == idx >= 0

\* line 444, `if i > 0`: whether the loop sleeps before the link of index idx
NeedsDelay(idx) == idx > 0

\* (a variant that applies the random factor whatever randomize says)
DelaySeconds_AlwaysJitter(base, rand, h) == base * (48 + 12 * h)

\* (a variant whose factor is random.random() * 0.4, without the 0.8)
DelaySeconds_NoOffset(base, rand, h) ==
    IF rand THEN base * (24 * h) ELSE base * 60

\* lines 444-451: delay_seconds for a draw of random.random() of h halves
\*   base_interval * (0.8 + h/2 * 0.4) * 60  =  base_interval * (48 + 12 h)
DelaySeconds(base, rand, h) ==
    IF rand THEN base * (48 + 12 * h) ELSE base * 60

\* what the handler of KeyboardInterrupt prints (lines 558, 1147)
Interrupted ==
    IF mode = "batch" THEN "Application terminated by user"
    ELSE "Operation cancelled by user"

\* top of the for loop: the loop ends, or the delay before link i starts,
\* or (i = 0) join_single_group is entered at once
LoopHead ==
    /\ pc = "loop"
    /\ IF i = Len(links)
       THEN /\ pc' = "display"
            /\ have_results' = TRUE
            /\ caller_results' = results
            /\ UNCHANGED <<delay_seconds, sleeps>>
       ELSE IF NeedsDelay(i)
       THEN /\ \E h \in RandomHalves :
                 delay_seconds' = DelaySeconds(base_interval, randomize, h)
            /\ sleeps' = sleeps + 1
            /\ pc' = "sleep"
            /\ UNCHANGED <<have_results, caller_results>>
       ELSE /\ pc' = "get_info"
            /\ UNCHANGED <<delay_seconds, sleeps, have_results, caller_results>>
    /\ UNCHANGED <<mode, cli_session, appVars, links_file, member, calls,
                   in_flight, links, base_interval, randomize, i, results,
                   info, summary, saved, cancelled, console>>

\* `await asyncio.sleep(delay_seconds)` returns
Sleep ==
    /\ pc = "sleep"
    /\ pc' = "get_info"
    /\ UNCHANGED <<mode, cli_session, appVars, links_file, member, runVars,
                   outVars, cancelled, console>>

\* an entry of the log of requests: request number index of the run (the
\* loop index), the request, whether the client was authenticated, what
\* the gateway answered, and delay_seconds of the last sleep of the run
\* before it (0 when the run has not slept yet)
Call(index, op, key, type) ==
    [index |-> index, op |-> op, key |-> key, authenticated |-> Authenticated,
     type |-> type, seconds |-> 0, msg |-> "", chats |-> <<>>,
     waited |-> delay_seconds]

\* join_single_group, line 304: `await self.get_group_info(link)`, taken
\* at position p of the task, f requests being in flight afterwards
\* (an exception that get_group_info does not catch reaches the except
\* clauses of join_single_group, whose try block holds the call)
GetGroupInfoAt(p, f) ==
    /\ pc = p
    /\ in_flight' = f
    /\ LET link == links[i + 1]
       IN  IF GroupInfoIsPrivate(link)
           THEN /\ info' = GetGroupInfoResult(link, TRUE)
                /\ pc' = "join"
                /\ UNCHANGED <<calls, results, i>>
           ELSE \E type \in GroupInfoSignals, w \in FloodSeconds :
                  /\ calls' = Append(calls, Call(i, "get_entity",
                                                 LastSegment(link), type))
                  /\ IF type = "Success" \/ GroupInfoCatches(type)
                     THEN /\ info' = GetGroupInfoResult(link, type = "Success")
                          /\ pc' = "join"
                          /\ UNCHANGED <<results, i>>
                     ELSE LET r == JoinSingleGroup(link, NoInfo,
                                                   Signal(type, w, "", <<>>))
                          IN  /\ results' = AppendResult(results, r)
                              /\ i' = NextIndex(i, r)
                              /\ info' = NoInfo
                              /\ pc' = "loop"
    /\ UNCHANGED <<mode, cli_session, appVars, links_file, member, links,
                   base_interval, randomize, delay_seconds, sleeps, outVars,
                   cancelled, console>>

\* the call and its answer in one step
GetGroupInfo ==
    /\ pc = "get_info"
    /\ GetGroupInfoAt("get_info", in_flight)

\* join_single_group, lines 306-392, and the rest of the loop body:
\* the join request, the JoinResult, results.append, taken at position p
\* of the task, f requests being in flight afterwards
JoinGroupAt(p, f) ==
    /\ pc = p
    /\ in_flight' = f
    /\ LET link == links[i + 1]
           req == JoinRequest(link)
       IN  \E sig \in GatewaySignals(req) :
             /\ member' = MemberAfter(req, sig)
             /\ calls' = Append(calls, [Call(i, req.op, req.key, sig.type)
                                         EXCEPT !.seconds = sig.seconds,
                                                !.msg = sig.msg,
                                                !.chats = sig.chats])
             /\ IF Clause(sig) = "uncaught"
                THEN /\ pc' = "exit"
                     /\ cancelled' = "exception"
                     /\ UNCHANGED <<results, i>>
                ELSE /\ results' = AppendResult(results,
                                                JoinSingleGroup(link, info, sig))
                     /\ i' = NextIndex(i, JoinSingleGroup(link, info, sig))
                     /\ pc' = "loop"
                     /\ UNCHANGED cancelled
    /\ info' = NoInfo
    /\ console' = IF pc' = "exit" THEN Interrupted ELSE console
    /\ UNCHANGED <<mode, cli_session, appVars, links_file, links,
                   base_interval, randomize, delay_seconds, sleeps, outVars>>

\* the request and its answer in one step
JoinGroup ==
    /\ pc = "join"
    /\ JoinGroupAt("join", in_flight)

\* KeyboardInterrupt / task cancellation while the run is suspended in
\* asyncio.sleep or is about to send a request: the exception leaves
\* join_groups_batch, whose local `results` is never returned
Cancel ==
    /\ pc \in {"sleep", "get_info", "join"}
    /\ cancelled' = pc
    /\ pc' = "exit"
    /\ console' = Interrupted
    /\ UNCHANGED <<mode, cli_session, appVars, links_file, member, runVars,
                   outVars>>

\* the same while a join request is in flight: the request may or may not
\* have been applied on the Telegram side
CancelInCall ==
    /\ pc = "join"
    /\ Authenticated
    /\ LET req == JoinRequest(links[i + 1])
       IN  /\ \E applied \in BOOLEAN :
                member' = IF applied THEN member \cup {<<req.op, req.key>>}
                          ELSE member
           /\ calls' = Append(calls, Call(i, req.op, req.key, "CancelledError"))
    /\ cancelled' = "in_call"
    /\ pc' = "exit"
    /\ console' = Interrupted
    /\ UNCHANGED <<mode, cli_session, appVars, links_file, in_flight, links,
                   base_interval, randomize, i, results, delay_seconds,
                   sleeps, info, outVars>>

----------------------------------------------------------------------------
(* display_results_summary (lines 477-498) and save_results (1080-1107) *)

\* (a variant that counts only the results without an error text)
RECURSIVE CountSuccess_NoError(_)
CountSuccess_NoError(rs) ==
    IF rs = <<>> THEN 0
    ELSE (IF Head(rs).success /\ Head(rs).error = NoneStr THEN 1 ELSE 0)
         + CountSuccess_NoError(Tail(rs))

\* line 479: sum(1 for r in results if r.success)
RECURSIVE CountSuccess(_)
CountSuccess(rs) ==
    IF rs = <<>> THEN 0
    ELSE (IF Head(rs).success THEN 1 ELSE 0) + CountSuccess(Tail(rs))

RECURSIVE FailedResults(_)
FailedResults(rs) ==
    IF rs = <<>> THEN <<>>
    ELSE IF ~Head(rs).success THEN <<Head(rs)>> \o FailedResults(Tail(rs))
    ELSE FailedResults(Tail(rs))

NoSummary ==
    [printed |-> FALSE, successful |-> 0, failed |-> 0, total |-> 0,
     failed_results |-> <<>>]

\* the rows and the failed attempts printed (the percentages, which are
\* successful/len(results) and failed/len(results), are not kept)
Summary(rs) ==
    [printed |-> TRUE, successful |-> CountSuccess(rs),
     failed |-> Len(rs) - CountSuccess(rs), total |-> Len(rs),
     failed_results |-> FailedResults(rs)]

NotSaved == [written |-> FALSE, data |-> <<>>]

\* where control goes when the current operation is over
\* (interactive: the "Press Enter to continue" prompt of the menu loop)
Back == IF mode = "batch" THEN "exit" ELSE "continue"

\* display_results_summary(results); len(results) = 0 raises
\* ZeroDivisionError, caught by main / run_interactive_mode
DisplayResultsSummary ==
    /\ pc = "display"
    /\ IF Len(caller_results) = 0
       THEN /\ pc' = Back
            /\ console' = IF mode = "batch" THEN "A fatal error occurred"
                           ELSE "An error occurred"
            /\ UNCHANGED summary
       ELSE /\ pc' = "save"
            /\ summary' = Summary(caller_results)
            /\ UNCHANGED console
    /\ UNCHANGED <<mode, cli_session, appVars, links_file, member, runVars,
                   have_results, caller_results, saved, cancelled>>

\* save_results(results); a write error is caught inside
SaveResults ==
    /\ pc = "save"
    /\ \E ok \in BOOLEAN :
         saved' = IF ok THEN [written |-> TRUE, data |-> caller_results]
                  ELSE saved
    /\ pc' = Back
    /\ UNCHANGED <<mode, cli_session, appVars, links_file, member, runVars,
                   have_results, caller_results, summary, cancelled, console>>

----------------------------------------------------------------------------
(* The batch-mode program *)

Groups == {<<JoinRequest(l).op, JoinRequest(l).key>> : l \in Links}

LinkFiles ==
    {[exists |-> FALSE, lines |-> <<>>]}
    \cup {[exists |-> TRUE, lines |-> ls] : ls \in SeqsUpTo(Links, MaxLinks)}

\* the account a login of session s saved earlier
SavedAccount(s) == AccountInfo(s, CHOOSE id \in ApiIds : TRUE, Me(s))

\* credentials.json holding the accounts of the sessions S
SavedCredentials(S) ==
    IF S = {} THEN NoCredentials
    ELSE [exists |-> TRUE, valid |-> TRUE,
          entries |-> [s \in S |-> ToEntry(SavedAccount(s))]]

NoSettings == [k \in {} |-> NoneStr]

InitRun ==
    /\ links = <<>> /\ i = 0 /\ results = <<>> /\ delay_seconds = 0
    /\ sleeps = 0 /\ info = NoInfo /\ calls = <<>> /\ in_flight = 0
    /\ have_results = FALSE /\ caller_results = <<>>
    /\ summary = NoSummary /\ saved = NotSaved /\ cancelled = ""
    /\ console = ""

Init ==
    /\ mode = "batch" /\ pc = "main"
    /\ cli_session \in {SessionA, NoSession}
    /\ client = NoClient /\ current_account = NoAccount
    /\ orphaned = {}
    /\ credentials = SavedCredentials({cli_session} \ {NoSession})
    /\ settings = NoSettings
    /\ session_files \in SUBSET ({cli_session} \ {NoSession})
    /\ links_file \in LinkFiles
    /\ member = {}
    /\ base_interval \in Intervals /\ randomize \in BOOLEAN
    /\ InitRun

Next ==
    \/ MainNoSession
    \/ MainLogin
    \/ MainLoadLinks
    \/ LoopHead
    \/ Sleep
    \/ GetGroupInfo
    \/ JoinGroup
    \/ Cancel
    \/ CancelInCall
    \/ DisplayResultsSummary
    \/ SaveResults

Spec == Init /\ [][Next]_vars

TypeOK ==
    /\ pc \in {"main", "load", "loop", "sleep", "get_info", "await_info",
               "join", "await_join", "display", "save", "menu", "continue",
               "exit"}
    /\ i \in 0..Len(links)
    /\ Len(results) = i

----------------------------------------------------------------------------
(* delete_account (lines 593-637) *)

\* the keys line 616 selects: k.startswith(f"{session_name}_")
SessionSpecificKeys(stg, s) ==
    {k \in DOMAIN stg : StartsWith(k, s \o <<"_">>)}

\* which file operation of delete_account raised, if any: unlink, the
\* reading of credentials.json (or open(..., 'w')), json.dump after open
\* truncated the file
DeleteSteps == {"unlink_failed", "credentials_failed", "write_failed",
                "deleted"}

\* a session name as the text of a message
RECURSIVE Text(_)
Text(s) == IF s = <<>> THEN "" ELSE s[1] \o Text(Tail(s))

\* line 631
DeletedMessage(s) ==
    "Successfully deleted local data for account: " \o Text(s)

\* delete_account(s)
DeleteAccount(s, step) ==
    /\ console' = IF step = "deleted" THEN DeletedMessage(s)
                  ELSE "Error deleting account data"
    /\ step = "deleted" => ~Unreadable(credentials)
    /\ step = "write_failed" => s \in SavedSessions(credentials)
    /\ session_files' =
         IF step = "unlink_failed" THEN session_files ELSE session_files \ {s}
    /\ credentials' =
         IF step = "deleted" /\ s \in SavedSessions(credentials)
         THEN [credentials EXCEPT
                 !.entries = [t \in DOMAIN credentials.entries \ {s} |->
                                 credentials.entries[t]]]
         ELSE IF step = "write_failed" THEN Truncated
         ELSE credentials
    /\ settings' =
         IF step = "deleted"
         THEN [k \in DOMAIN settings \ SessionSpecificKeys(settings, s) |->
                  settings[k]]
         ELSE settings
    /\ IF step = "deleted" /\ current_account # NoAccount
          /\ current_account.session_name = s
       THEN client' = NoClient /\ current_account' = NoAccount
       ELSE UNCHANGED <<client, current_account>>
    /\ UNCHANGED orphaned

----------------------------------------------------------------------------
(* run_interactive_mode (lines 500-563) *)

\* choice 1: login_account(), the session name is typed; also choice 3,
\* manage_accounts (lines 639-676) with action "login", which makes the
\* same call when an account is saved
MenuLogin ==
    /\ mode = "interactive" /\ pc = "menu"
    /\ \E s \in Sessions, use_saved \in BOOLEAN, id \in ApiIds,
          step \in LoginSteps, save \in SaveSteps :
          LoginAccount(s, use_saved, id, step, save, "continue", "continue")
    /\ UNCHANGED <<mode, cli_session, links_file, member, runVars, outVars,
                   cancelled, console>>

\* choice 2 without a client: "Please login first!"
MenuJoinRefused ==
    /\ mode = "interactive" /\ pc = "menu"
    /\ ~HasClient
    /\ console' = "Please login first!"
    /\ pc' = "continue"
    /\ UNCHANGED <<mode, cli_session, appVars, links_file, member,
                   runVars, outVars, cancelled>>

\* choice 2 with a client: join_groups_interactive (lines 565-585) up to
\* the entry of join_groups_batch; answer is "start" or "decline" for the
\* question "Start joining ... groups?", or "bad_interval" when float() of
\* the typed interval raises (caught at line 560)
MenuJoin ==
    /\ mode = "interactive" /\ pc = "menu"
    /\ HasClient
    /\ links_file' = LinksFileAfterLoad(links_file)
    /\ \E interval \in Intervals, rand \in BOOLEAN,
          answer \in {"start", "decline", "bad_interval"} :
         IF LoadGroupLinks(links_file) = <<>> \/ answer # "start"
         THEN /\ pc' = "continue"
              /\ console' = IF LoadGroupLinks(links_file) # <<>>
                                /\ answer = "bad_interval"
                             THEN "An error occurred" ELSE console
              /\ UNCHANGED <<runVars, outVars>>
         ELSE /\ pc' = "loop"
              /\ links' = LoadGroupLinks(links_file)
              /\ base_interval' = interval /\ randomize' = rand
              /\ i' = 0 /\ results' = <<>> /\ calls' = <<>> /\ sleeps' = 0
              /\ have_results' = FALSE /\ caller_results' = <<>>
              /\ UNCHANGED <<delay_seconds, info, in_flight, summary, saved,
                             console>>
    /\ UNCHANGED <<mode, cli_session, appVars, member, cancelled>>

\* choice 3, manage_accounts (lines 639-681), which needs a saved account:
\* action "delete", confirmed, the session name typed being one of names
ManageDelete(names) ==
    /\ SavedSessions(credentials) # {}
    /\ \E s \in names, step \in DeleteSteps : DeleteAccount(s, step)
    /\ pc' = "continue"
    /\ UNCHANGED <<mode, cli_session, links_file, member, runVars,
                   outVars, cancelled>>

\* the name typed is one of the sessions in use
MenuManageDelete ==
    /\ mode = "interactive" /\ pc = "menu"
    /\ ManageDelete(Sessions)

\* "Press Enter to continue" answered: the next iteration of the menu loop
\* clears the console (display_banner); the locals of the finished
\* operation are gone
Continue ==
    /\ mode = "interactive" /\ pc = "continue"
    /\ pc' = "menu"
    /\ links' = <<>> /\ i' = 0 /\ results' = <<>> /\ delay_seconds' = 0
    /\ sleeps' = 0 /\ info' = NoInfo /\ calls' = <<>> /\ in_flight' = 0
    /\ base_interval' = 5 /\ randomize' = TRUE
    /\ have_results' = FALSE /\ caller_results' = <<>>
    /\ summary' = NoSummary /\ saved' = NotSaved
    /\ console' = ""
    /\ UNCHANGED <<mode, cli_session, appVars, links_file, member, cancelled>>

\* choice 5: disconnect the current client and leave the loop
MenuExit ==
    /\ mode = "interactive" /\ pc = "menu"
    /\ client' = IF HasClient THEN [client EXCEPT !.connected = FALSE]
                 ELSE client
    /\ pc' = "exit"
    /\ console' = "Thank you for using NiftyPool Enhanced!"
    /\ UNCHANGED <<mode, cli_session, orphaned, current_account, credentials,
                   settings, session_files, links_file, member, runVars,
                   outVars, cancelled>>

\* KeyboardInterrupt at the menu prompt
MenuInterrupt ==
    /\ mode = "interactive" /\ pc = "menu"
    /\ pc' = "exit"
    /\ cancelled' = "menu"
    /\ console' = Interrupted
    /\ UNCHANGED <<mode, cli_session, appVars, links_file, member, runVars,
                   outVars>>

----------------------------------------------------------------------------
(* The interactive program *)

\* keys of settings.json: one of session "a", one of session "a_b", one global
KeyA == SessionA \o <<"_", "x">>
KeyB == SessionB \o <<"_", "x">>
KeyGlobal == <<"b", "a", "t", "c", "h", "_", "s", "i", "z", "e">>

AppLinkFiles ==
    {[exists |-> FALSE, lines |-> <<>>],
     [exists |-> TRUE, lines |-> <<PublicLink, PlusLink>>]}

InitApp ==
    /\ mode = "interactive" /\ pc = "menu"
    /\ cli_session = NoSession
    /\ client = NoClient /\ current_account = NoAccount
    /\ orphaned = {}
    /\ credentials = NoCredentials
    /\ settings = NoSettings
    /\ session_files = {}
    /\ links_file \in AppLinkFiles
    /\ member = {}
    /\ base_interval = 5 /\ randomize = TRUE
    /\ InitRun

NextApp ==
    \/ MenuLogin
    \/ MenuJoinRefused
    \/ MenuJoin
    \/ MenuManageDelete
    \/ Continue
    \/ MenuExit
    \/ MenuInterrupt
    \/ LoopHead
    \/ Sleep
    \/ GetGroupInfo
    \/ JoinGroup
    \/ Cancel
    \/ CancelInCall
    \/ DisplayResultsSummary
    \/ SaveResults

SpecApp == InitApp /\ [][NextApp]_vars

----------------------------------------------------------------------------
(* join_groups_batch on its own: a logged-in account and a list of links *)

MaxPacedLinks == 3

LoggedIn(s) == [session |-> s, connected |-> TRUE, authorized |-> TRUE]

\* the state at the entry of join_groups_batch(ls, base_interval, randomize)
\* for the account of session a
InitBatch(ls) ==
    /\ mode = "batch" /\ pc = "loop"
    /\ cli_session = SessionA
    /\ client = LoggedIn(SessionA)
    /\ orphaned = {}
    /\ current_account = SavedAccount(SessionA)
    /\ credentials = SavedCredentials({SessionA})
    /\ settings = NoSettings
    /\ session_files = {SessionA}
    /\ links_file = [exists |-> TRUE, lines |-> ls]
    /\ member = {}
    /\ links = ls /\ i = 0 /\ results = <<>> /\ delay_seconds = 0
    /\ sleeps = 0 /\ info = NoInfo /\ calls = <<>> /\ in_flight = 0
    /\ have_results = FALSE /\ caller_results = <<>>
    /\ summary = NoSummary /\ saved = NotSaved /\ cancelled = ""
    /\ console = ""

\* pacing: runs over 1..MaxPacedLinks links
InitPacing ==
    /\ \E n \in 1..MaxPacedLinks : InitBatch([k \in 1..n |-> PlusLink])
    /\ base_interval \in Intervals /\ randomize \in BOOLEAN

NextBatch ==
    \/ LoopHead
    \/ Sleep
    \/ GetGroupInfo
    \/ JoinGroup

SpecPacing == InitPacing /\ [][NextBatch]_vars

\* link strings: the pieces the code looks for, put together in every order
MaxTokens == 4

Tokens == {JOINCHAT, <<"/">>, PLUS, <<"a">>}

RECURSIVE Flatten(_)
Flatten(ts) == IF ts = <<>> THEN <<>> ELSE Head(ts) \o Flatten(Tail(ts))

LinkStrings ==
    {Flatten(ts) : ts \in UNION {[1..n -> Tokens] : n \in 1..MaxTokens}}

\* links: runs over the same link string twice
InitLinks ==
    /\ \E l \in LinkStrings : InitBatch(<<l, l>>)
    /\ base_interval = 1 /\ randomize = FALSE

SpecLinks == InitLinks /\ [][NextBatch]_vars

----------------------------------------------------------------------------
(* load_group_links on its own: files of up to MaxFileLines lines *)

MaxFileLines == 2

LineChars == {" ", "#", "a"}
FileLineStrings == SeqsUpTo(LineChars, 3)

LoadFiles ==
    {[exists |-> FALSE, lines |-> <<>>]}
    \cup {[exists |-> TRUE, lines |-> ls] :
             ls \in SeqsUpTo(FileLineStrings, MaxFileLines)}

InitLoad ==
    /\ mode = "batch" /\ pc = "load"
    /\ cli_session = SessionA
    /\ client = LoggedIn(SessionA)
    /\ orphaned = {}
    /\ current_account = SavedAccount(SessionA)
    /\ credentials = SavedCredentials({SessionA})
    /\ settings = NoSettings
    /\ session_files = {SessionA}
    /\ links_file \in LoadFiles
    /\ member = {}
    /\ base_interval = 5 /\ randomize = TRUE
    /\ InitRun

NextLoad ==
    \/ MainLoadLinks

SpecLoad == InitLoad /\ [][NextLoad]_vars

----------------------------------------------------------------------------
(* join_single_group on its own: what it records for each thing the       *)
(* request can do, whatever the text of the exception                      *)

\* str(e) of an exception caught at line 382: any text, the texts of the
\* other clauses among them
AnyMessages ==
    OtherMessages \cup {"", "Already a member", "Invalid or expired link",
                        "Banned from this group"}

AnySignals ==
    {Signal("Success", 0, "", ch) : ch \in {<<>>, <<Entity.title>>}}
    \cup {Signal("FloodWaitError", w, "", <<>>) : w \in FloodSeconds}
    \cup {Signal(t, 0, "", <<>>) :
            t \in {"UserAlreadyParticipantError", "InviteHashExpiredError",
                   "ChannelPrivateError", "UserBannedInChannelError"}}
    \cup {Signal("Exception", 0, m, <<>>) : m \in AnyMessages}

\* `results.append(await self.join_single_group(link))` for the next link,
\* the request being answered by any of AnySignals
JoinAnswered ==
    /\ pc = "loop" /\ i < Len(links)
    /\ \E sig \in AnySignals :
         /\ calls' = Append(calls,
                            [Call(i, JoinRequest(links[i + 1]).op,
                                  JoinRequest(links[i + 1]).key, sig.type)
                             EXCEPT !.seconds = sig.seconds, !.msg = sig.msg,
                                    !.chats = sig.chats])
         /\ results' = AppendResult(results,
                                    JoinSingleGroup(links[i + 1], NoInfo, sig))
    /\ i' = i + 1
    /\ UNCHANGED <<mode, pc, cli_session, appVars, links_file, member,
                   in_flight, links, base_interval, randomize, delay_seconds,
                   sleeps, info, outVars, cancelled, console>>

InitOutcome ==
    /\ InitBatch(<<PlusLink, PlusLink>>)
    /\ base_interval = 5 /\ randomize = TRUE

NextOutcome ==
    \/ JoinAnswered

SpecOutcome == InitOutcome /\ [][NextOutcome]_vars

----------------------------------------------------------------------------
(* join_groups_batch at the grain of its awaits: a request is received by *)
(* the gateway in one step and answered in a later one                     *)

\* (a variant that starts the join request as a task of its own)
Suspended_JoinNotAwaited(p) == IF p = "get_info" THEN "await_info" ELSE "loop"

\* `await self.client...` at lines 292-293, 317 and 324: where the task is
\* once the request of position p is sent, suspended until the answer
Suspended(p) == IF p = "get_info" THEN "await_info" ELSE "await_join"

\* get_group_info returns at line 290, no request
FlightNoLookup ==
    /\ pc = "get_info" /\ GroupInfoIsPrivate(links[i + 1])
    /\ GetGroupInfo

\* the request of get_group_info or of join_single_group reaches the gateway
FlightSend ==
    /\ pc \in {"get_info", "join"}
    /\ pc = "get_info" => ~GroupInfoIsPrivate(links[i + 1])
    /\ in_flight' = in_flight + 1
    /\ pc' = Suspended(pc)
    /\ UNCHANGED <<mode, cli_session, appVars, links_file, member, links,
                   base_interval, randomize, i, results, delay_seconds,
                   sleeps, info, calls, outVars, cancelled, console>>

\* the gateway answers; the task resumes
FlightLookupAnswer ==
    /\ pc = "await_info" /\ in_flight > 0
    /\ GetGroupInfoAt("await_info", in_flight - 1)

FlightJoinAnswer ==
    /\ pc = "await_join" /\ in_flight > 0
    /\ JoinGroupAt("await_join", in_flight - 1)

InitFlight ==
    /\ \E ls \in SeqsUpTo(Links \cup {JoinchatLink}, MaxLinks) \ {<<>>} :
          InitBatch(ls)
    /\ base_interval = 1 /\ randomize = FALSE

NextFlight ==
    \/ LoopHead
    \/ Sleep
    \/ FlightNoLookup
    \/ FlightSend
    \/ FlightLookupAnswer
    \/ FlightJoinAnswer

SpecFlight == InitFlight /\ [][NextFlight]_vars

----------------------------------------------------------------------------
(* Properties *)

IsJoinCall(c) == c.op # "get_entity"
\* the join requests of the current run, in the order they were sent
JoinCalls == SelectSeq(calls, IsJoinCall)
GroupOf(link) == <<JoinRequest(link).op, JoinRequest(link).key>>
FailureTypes == {"FloodWaitError", "InviteHashExpiredError", "ChannelPrivateError",
                 "UserBannedInChannelError", "Exception"}
BetweenAttempts == {"sleep", "get_info", "join"}

\* C1: when join_groups_batch has returned, the list it returned has one
\* entry per link and the k-th entry carries the k-th link, whatever the
\* gateway answered
C1_ResultsMatchLinks ==
    have_results =>
        /\ Len(caller_results) = Len(links)
        /\ \A k \in 1..Len(links) : caller_results[k].link = links[k]

C1_Witness ==
    /\ have_results /\ Len(links) = 2 /\ links[1] # links[2]
    /\ ~caller_results[1].success /\ caller_results[2].success

C2_State ==
    /\ Len(results) <= Len(links)
    /\ \A k \in 1..Len(results) : results[k].link = links[k]
    /\ \A k \in 1..Len(JoinCalls) :
          /\ JoinCalls[k].index = k - 1
          /\ k <= Len(links)
          /\ [op |-> JoinCalls[k].op, key |-> JoinCalls[k].key]
                = JoinRequest(links[k])

C2_Step ==
    /\ Len(JoinCalls') > Len(JoinCalls) => Len(results) = Len(JoinCalls)
    /\ \/ results' = results
       \/ results' = <<>>
       \/ /\ Len(results') = Len(results) + 1
          /\ SubSeq(results', 1, Len(results)) = results

\* C2: join requests are sent in the order of the links, none skipped or
\* repeated out of turn: the k-th join request of a run is the one for the
\* k-th link and is sent only when the outcomes of all earlier links are in
\* results; results is at all times the outcomes of a prefix of the links
\* and changes only by an append at its end (or by the start of a new run)
C2_StrictOrder == [](C2_State) /\ [][C2_Step]_vars

C2_Witness ==
    /\ pc = "join" /\ i = 1 /\ Len(results) = 1 /\ ~results[1].success
    /\ links[1] # links[2]

C3_State ==
    /\ cancelled # "exception"
    /\ have_results => Len(JoinCalls) = Len(links)
    /\ (pc = "exit" /\ links # <<>> /\ cancelled = "") => have_results

C3_Step ==
    (pc = "join" /\ cancelled' = "") =>
        /\ pc' = "loop"
        /\ Len(results') = Len(results) + 1
        /\ SubSeq(results', 1, Len(results)) = results
        /\ results'[Len(results')].link = links[i + 1]

\* C3: no answer of the gateway to a join request makes join_single_group
\* raise or ends the run: the step that sends a request appends exactly one
\* JoinResult for that link and leaves the earlier results as they were, a
\* run that was not cancelled ends only by returning, and by then a join
\* request was sent for every link
C3_FailureNeverAborts == [](C3_State) /\ [][C3_Step]_vars

C3_Witness ==
    /\ have_results /\ Len(JoinCalls) = 2
    /\ \E c \in 1..Len(calls) :
          calls[c].op = "get_entity" /\ calls[c].type = "Exception"
    /\ JoinCalls[1].type \in FailureTypes
    /\ JoinCalls[2].type = "Success"

C5_AlreadyMember ==
    \A k \in 1..Len(results) :
       /\ JoinCalls[k].type = "UserAlreadyParticipantError" =>
             results[k].success /\ results[k].error = "Already a member"
       /\ JoinCalls[k].type = "Success" =>
             results[k].success /\ results[k].error = NoneStr

C5_Witness ==
    \E k \in 1..Len(results) :
       /\ JoinCalls[k].type = "UserAlreadyParticipantError"
       /\ results[k].group_name = Entity.title

\* C6: the JoinResult recorded for a failed join request has success =
\* False and as error: for FloodWaitError with seconds W the text "Rate
\* limited. Wait W seconds"; for InviteHashExpiredError and
\* ChannelPrivateError "Invalid or expired link"; for
\* UserBannedInChannelError "Banned from this group"; for any other
\* exception its str()
C6_FailureMapping ==
    \A k \in 1..Len(results) :
       LET c == JoinCalls[k]
           r == results[k]
       IN  /\ c.type \in FailureTypes => ~r.success
           /\ c.type = "FloodWaitError" =>
                 r.error = "Rate limited. Wait " \o ToString(c.seconds) \o " seconds"
           /\ c.type \in {"InviteHashExpiredError", "ChannelPrivateError"} =>
                 r.error = "Invalid or expired link"
           /\ c.type = "UserBannedInChannelError" =>
                 r.error = "Banned from this group"
           /\ c.type = "Exception" => r.error = c.msg

C6_Witness ==
    /\ Len(results) = 2
    /\ JoinCalls[1].type = "FloodWaitError" /\ JoinCalls[1].seconds = 120
    /\ JoinCalls[2].type = "ChannelPrivateError"

C7_State ==
    \A k \in 1..Len(results) : results[k].success => GroupOf(links[k]) \in member

C7_Step ==
    (pc = "join" /\ Len(results') = Len(results) + 1) =>
        LET r == results'[Len(results')]
        IN  /\ r.success => GroupOf(links[i + 1]) \in member'
            /\ ~r.success => member' = member

\* C7: with every join request applied atomically by the gateway, a
\* JoinResult with success = True is recorded only when the account is a
\* member of that group after the request, and a request whose JoinResult
\* has success = False changed no membership
C7_MembershipMatchesStatus == [](C7_State) /\ [][C7_Step]_vars

C7_Witness ==
    /\ Len(results) = 2 /\ links[1] # links[2]
    /\ results[1].success /\ results[1].error = NoneStr
    /\ ~results[2].success
    /\ GroupOf(links[1]) \in member /\ GroupOf(links[2]) \notin member

\* C8: when the run is cancelled between two attempts (in the pacing sleep
\* or before a request is sent), the caller holds one JoinResult per link
\* processed so far, in order
C8_PartialResultsRetrievable ==
    cancelled \in BetweenAttempts =>
        /\ Len(caller_results) = Len(JoinCalls)
        /\ \A k \in 1..Len(caller_results) : caller_results[k].link = links[k]

\* C9: no join request is sent through a client that is not an
\* authenticated session
C9_NoAttemptWithoutSession ==
    \A k \in 1..Len(JoinCalls) : JoinCalls[k].authenticated

\* C10: the sleep before an attempt that follows a FloodWaitError with
\* seconds W lasts at least W seconds
C10_FloodWaitRespected ==
    (pc \in {"get_info", "join"} /\ i > 0 /\ Len(JoinCalls) = i
        /\ JoinCalls[i].type = "FloodWaitError")
    => delay_seconds >= JoinCalls[i].seconds

C11_State ==
    /\ pc \in {"sleep", "get_info", "join"} => sleeps = i
    /\ pc = "sleep" => i > 0
    /\ \A c \in 1..Len(calls) : calls[c].index = 0 => calls[c].waited = 0
    /\ have_results => sleeps = Len(links) - 1

C11_Step ==
    /\ (pc = "loop" /\ pc' = "get_info") => (i = 0 /\ sleeps' = sleeps)
    /\ (pc = "loop" /\ i > 0 /\ i < Len(links)) =>
          (pc' = "sleep" /\ sleeps' = sleeps + 1)
    /\ pc # "loop" => sleeps' = sleeps

\* C11: the loop goes to the first link without sleeping and sleeps exactly
\* once before every later link, so that the number of sleeps done when the
\* attempt of index i starts is i, and a run that returned over N links
\* slept N - 1 times
C11_NoWaitBeforeFirst == [](C11_State) /\ [][C11_Step]_vars

C11_Witness ==
    /\ have_results /\ Len(links) = 3 /\ sleeps = 2
    /\ JoinCalls[1].waited = 0 /\ JoinCalls[2].waited > 0

\* C12 as stated: without randomization the seconds slept before a link
\* equal the base interval passed to join_groups_batch
C12_DelayEqualsBase ==
    (pc = "sleep" /\ ~randomize) => delay_seconds = base_interval

\* C12, amended: without randomization the seconds slept before every link
\* of index > 0 are 60 times the base interval passed to join_groups_batch,
\* which is a number of minutes
C12_DelayIsBaseMinutes ==
    ~randomize =>
        /\ pc = "sleep" => delay_seconds = 60 * base_interval
        /\ \A c \in 1..Len(calls) :
              calls[c].index > 0 => calls[c].waited = 60 * base_interval

C12_Witness ==
    /\ ~randomize /\ base_interval = 5 /\ Len(JoinCalls) = 3
    /\ JoinCalls[2].waited = 300 /\ JoinCalls[3].waited = 300

\* C13: with randomization the delay before every link of index > 0 lies
\* between 0.8 and 1.2 times the base interval for every draw (in seconds:
\* between 48 and 72 times the base interval in minutes), and the delay is
\* drawn anew in each iteration
C13_JitterRange ==
    randomize =>
        /\ pc = "sleep" =>
              /\ 48 * base_interval <= delay_seconds
              /\ delay_seconds <= 72 * base_interval
        /\ \A c \in 1..Len(calls) :
              calls[c].index > 0 =>
                 /\ 48 * base_interval <= calls[c].waited
                 /\ calls[c].waited <= 72 * base_interval

C13_Witness ==
    /\ randomize /\ Len(JoinCalls) = 3
    /\ JoinCalls[2].waited = 48 * base_interval
    /\ JoinCalls[3].waited # JoinCalls[2].waited

\* what the claims say of a link, computed from its characters

\* the position of the last '/' of link (0 when it has none)
LastSlash(link) ==
    LET S == {0} \cup {k \in 1..Len(link) : link[k] = "/"}
    IN  CHOOSE k \in S : \A j \in S : j <= k

\* the text after the last '/'
FinalSegment(link) == SubSeq(link, LastSlash(link) + 1, Len(link))

HasJoinchat(link) ==
    \E k \in 1..Len(link) :
       /\ k + 7 <= Len(link)
       /\ \A j \in 1..8 : link[k + j - 1] = JOINCHAT[j]

PrivateInvite(link) ==
    \/ HasJoinchat(link)
    \/ FinalSegment(link) # <<>> /\ FinalSegment(link)[1] = "+"

\* seg from its first character that is not '+'
RECURSIVE DropLeadingPlus(_)
DropLeadingPlus(seg) ==
    IF seg # <<>> /\ seg[1] = "+" THEN DropLeadingPlus(Tail(seg)) ELSE seg

\* the final segment without leading '+' and without a 'joinchat/' prefix
ExpectedHash(link) ==
    LET noplus == DropLeadingPlus(FinalSegment(link))
    IN  IF Len(noplus) >= 9 /\ SubSeq(noplus, 1, 9) = JOINCHAT_SLASH
        THEN SubSeq(noplus, 10, Len(noplus)) ELSE noplus

LinkOf(c) == links[c.index + 1]
CallsOf(idx) == {c \in 1..Len(calls) : calls[c].index = idx}

\* C14: a link is joined with ImportChatInviteRequest exactly when it
\* contains "joinchat" or the text after its last '/' starts with '+', and
\* with JoinChannelRequest otherwise
C14_Classification ==
    \A k \in 1..Len(JoinCalls) :
       /\ JoinCalls[k].op = "ImportChatInviteRequest"
             <=> PrivateInvite(LinkOf(JoinCalls[k]))
       /\ JoinCalls[k].op = "JoinChannelRequest"
             <=> ~PrivateInvite(LinkOf(JoinCalls[k]))

C14_Witness ==
    /\ Len(JoinCalls) = 2
    /\ HasJoinchat(links[1]) /\ ~HasJoinchat(FinalSegment(links[1]))
    /\ FinalSegment(links[1]) # <<>> /\ FinalSegment(links[1])[1] # "+"
    /\ JoinCalls[2].op = "ImportChatInviteRequest"

\* C15: the invite hash passed to ImportChatInviteRequest is the text after
\* the last '/' of the link without its leading '+' and without a
\* 'joinchat/' prefix, every other character kept
C15_InviteHashKeepsCharacters ==
    \A k \in 1..Len(JoinCalls) :
       JoinCalls[k].op = "ImportChatInviteRequest"
          => JoinCalls[k].key = ExpectedHash(LinkOf(JoinCalls[k]))

\* C16: every attempted link got exactly one join request: a link that is
\* not a private invite JoinChannelRequest with the text after its last '/'
\* unchanged, a private invite ImportChatInviteRequest
C16_OneOperationByKind ==
    /\ \A k \in 1..Len(results) :
          Cardinality({c \in CallsOf(k - 1) : IsJoinCall(calls[c])}) = 1
    /\ \A k \in 1..Len(JoinCalls) :
          IF PrivateInvite(LinkOf(JoinCalls[k]))
          THEN JoinCalls[k].op = "ImportChatInviteRequest"
          ELSE /\ JoinCalls[k].op = "JoinChannelRequest"
               /\ JoinCalls[k].key = FinalSegment(LinkOf(JoinCalls[k]))

C16_Witness ==
    /\ Len(results) = 2 /\ ~results[1].success
    /\ LastSlash(links[1]) > 1 /\ Contains(links[1], PLUS)
    /\ JoinCalls[2].op = "JoinChannelRequest"
    /\ JoinCalls[2].key = <<"a">>

C18_State ==
    \A c \in 1..Len(calls) :
       (calls[c].op = "get_entity" /\ calls[c].type # "Success"
           /\ Len(results) > calls[c].index)
       => \E j \in CallsOf(calls[c].index) :
             LET r == results[calls[c].index + 1]
             IN  /\ j > c
                 /\ calls[j].op = "JoinChannelRequest"
                 /\ r.group_name = NoneStr /\ r.member_count = NoneInt
                 /\ r.success <=> calls[j].type \in
                                    {"Success", "UserAlreadyParticipantError"}
                 /\ calls[j].type = "Success" => r.error = NoneStr

C18_Step ==
    (pc = "get_info" /\ cancelled' = "") =>
        /\ pc' = "join" /\ results' = results /\ i' = i
        /\ (calls' # calls /\ calls'[Len(calls')].type # "Success")
              => info' = NoInfo

\* C18: whatever exception get_entity or GetFullChannelRequest raises for
\* a public link, a rate limit included, get_group_info returns (None,
\* None): the step records no result and goes on to the join request, and
\* the JoinResult of that link has group_name = None, member_count = None
\* and success / error as the join request alone decides
C18_LookupFailureSwallowed == [](C18_State) /\ [][C18_Step]_vars

C18_Witness ==
    /\ Len(results) = 2
    /\ calls[1].op = "get_entity" /\ calls[1].type = "FloodWaitError"
    /\ JoinCalls[1].type = "Success" /\ results[1].group_name = NoneStr
    /\ results[2].group_name = Entity.title

\* C19: for a link that is a private invite the only request sent to the
\* gateway is one ImportChatInviteRequest: no get_entity /
\* GetFullChannelRequest before it
C19_NoLookupForPrivate ==
    \A c \in 1..Len(calls) :
       PrivateInvite(LinkOf(calls[c])) =>
          /\ calls[c].op = "ImportChatInviteRequest"
          /\ CallsOf(calls[c].index) = {c}

C19_Witness ==
    /\ Len(results) = 2 /\ Len(calls) = 2
    /\ PrivateInvite(links[1]) /\ ~HasJoinchat(links[1])
    /\ results[2].group_name = Entity.title

\* C20: within a run at most one request is in flight at the gateway, a
\* request is in flight only while the task is suspended on its answer,
\* and none is in flight while the run sleeps between two links
C20_OneCallAtATime ==
    /\ in_flight \in {0, 1}
    /\ in_flight = 1 <=> pc \in {"await_info", "await_join"}
    /\ pc = "sleep" => in_flight = 0

C20_Witness ==
    /\ pc = "await_join" /\ in_flight = 1 /\ i = 1 /\ sleeps = 1
    /\ calls[1].op = "get_entity"

\* what C21 says of a line, computed from its characters

NonBlank(line) == {k \in 1..Len(line) : line[k] \notin Whitespace}

\* line from its first to its last character that is no whitespace
Trimmed(line) ==
    IF NonBlank(line) = {} THEN <<>>
    ELSE LET first == CHOOSE k \in NonBlank(line) :
                          \A j \in NonBlank(line) : k <= j
             last == CHOOSE k \in NonBlank(line) :
                         \A j \in NonBlank(line) : j <= k
         IN  SubSeq(line, first, last)

\* the numbers of the lines that are links
LinkLines(lines) ==
    {k \in 1..Len(lines) :
        Trimmed(lines[k]) # <<>> /\ Trimmed(lines[k])[1] # "#"}

\* the n-th of them
NthLinkLine(lines, n) ==
    CHOOSE k \in LinkLines(lines) :
       Cardinality({j \in LinkLines(lines) : j < k}) = n - 1

\* C21: load_group_links returns one entry per line of the file that is
\* neither blank nor a comment after trimming, in the order of the file
\* and duplicates included, each entry being the trimmed line
C21_LoadedLinks ==
    (pc # "load" /\ links_file.exists) =>
        /\ Len(links) = Cardinality(LinkLines(links_file.lines))
        /\ \A n \in 1..Len(links) :
              links[n] = Trimmed(links_file.lines[NthLinkLine(links_file.lines, n)])

C21_Witness ==
    /\ pc = "loop" /\ Len(links_file.lines) = 2 /\ Len(links) = 2
    /\ links[1] = links[2]
    /\ links_file.lines[1] # links_file.lines[2]
    /\ links_file.lines[1][1] = " "

IsFailed(r) == ~r.success

\* C22: the summary printed for a results list has successful + failed =
\* total = the number of results, successful is the number of attempts
\* whose request succeeded or found the account already a member, and the
\* failed attempts listed are the other results in their order
C22_SummaryCounts ==
    summary.printed =>
        /\ summary.successful + summary.failed = Len(caller_results)
        /\ summary.total = Len(caller_results)
        /\ summary.successful =
              Cardinality({k \in 1..Len(JoinCalls) :
                             JoinCalls[k].type \in
                                {"Success", "UserAlreadyParticipantError"}})
        /\ summary.failed_results = SelectSeq(caller_results, IsFailed)

C22_Witness ==
    /\ summary.printed /\ summary.total = 2 /\ summary.successful = 2
    /\ JoinCalls[2].type = "UserAlreadyParticipantError"

\* the entry of the taxonomy a gateway answer belongs to
Taxonomy(c) ==
    CASE c.type = "Success" -> "Joined"
      [] c.type = "UserAlreadyParticipantError" -> "AlreadyMember"
      [] c.type = "FloodWaitError" -> "RateLimited"
      [] c.type \in {"InviteHashExpiredError", "ChannelPrivateError"} ->
            "InvalidOrExpired"
      [] c.type = "UserBannedInChannelError" -> "Banned"
      [] OTHER -> "OtherFailure"

\* C23: two attempts on the same link whose gateway answers belong to
\* different entries of the taxonomy are recorded as different JoinResults
C23_StatusRecoverable ==
    \A a, b \in 1..Len(results) :
       Taxonomy(JoinCalls[a]) # Taxonomy(JoinCalls[b]) => results[a] # results[b]

\* C25: the JoinResult of a private invite has as group_name the title of
\* the first chat of the answer to ImportChatInviteRequest when the answer
\* lists chats, and None when it lists none or the request raised;
\* member_count is None in every case
C25_TitleFromResponse ==
    \A k \in 1..Len(results) :
       PrivateInvite(links[k]) =>
          /\ results[k].member_count = NoneInt
          /\ results[k].group_name =
                IF JoinCalls[k].chats # <<>> THEN JoinCalls[k].chats[1]
                ELSE NoneStr

C25_Witness ==
    /\ Len(results) = 2 /\ PrivateInvite(links[1])
    /\ JoinCalls[1].type = "Success" /\ JoinCalls[1].chats = <<>>
    /\ JoinCalls[2].type = "Success" /\ results[2].group_name = Entity.title

----------------------------------------------------------------------------
(* The two callers of join_groups_batch, an account being logged in:      *)
(* main in batch mode from load_group_links on (lines 1131-1138) and the  *)
(* menu with join_groups_interactive (lines 565-591)                      *)

InitRuns ==
    /\ \/ /\ mode = "batch" /\ pc = "load"
          /\ cli_session = SessionA
          /\ links_file \in LinkFiles
          /\ base_interval \in Intervals /\ randomize \in BOOLEAN
       \/ /\ mode = "interactive" /\ pc = "menu"
          /\ cli_session = NoSession
          /\ links_file \in AppLinkFiles
          /\ base_interval = 5 /\ randomize = TRUE
    /\ client = LoggedIn(SessionA)
    /\ orphaned = {}
    /\ current_account = SavedAccount(SessionA)
    /\ credentials = SavedCredentials({SessionA})
    /\ settings = NoSettings
    /\ session_files = {SessionA}
    /\ member = {}
    /\ InitRun

NextRuns ==
    \/ MainLoadLinks
    \/ MenuJoin
    \/ Continue
    \/ MenuExit
    \/ MenuInterrupt
    \/ LoopHead
    \/ Sleep
    \/ GetGroupInfo
    \/ JoinGroup
    \/ Cancel
    \/ CancelInCall
    \/ DisplayResultsSummary
    \/ SaveResults

SpecRuns == InitRuns /\ [][NextRuns]_vars

\* C28: join_groups_batch is only entered with at least one link, and
\* display_results_summary is only called with one result per link, hence
\* never with an empty list
C28_SummaryNeverEmpty ==
    /\ pc \in {"loop", "sleep", "get_info", "join", "display"} =>
          Len(links) >= 1
    /\ pc = "display" =>
          Len(caller_results) = Len(links) /\ Len(caller_results) >= 1

C28_Witness ==
    /\ pc = "display" /\ mode = "interactive"
    /\ Len(caller_results) = 2 /\ ~caller_results[1].success

----------------------------------------------------------------------------
(* ConfigManager on its own: save_credentials called with any account on  *)
(* any credentials.json (lines 72-120)                                    *)

\* values of last_used: None, a whole second, and two with microseconds
LastUsedValues ==
    {NoDate, Now,
     [date |-> "2024-01-01", time |-> "00:00:00", microsecond |-> 0],
     [date |-> "2024-01-01", time |-> "00:00:00", microsecond |-> 5]}

\* get_me() of an account without a public phone or username gives None
Accounts ==
    {[session_name |-> s, api_id |-> id, api_hash |-> ApiHash(id),
      phone |-> ph, first_name |-> "Ann", username |-> un, last_used |-> lu] :
        s \in Sessions, id \in ApiIds, ph \in {NoneStr, "+100"},
        un \in {NoneStr, "ann"}, lu \in LastUsedValues}

StoreFiles ==
    {NoCredentials, Truncated} \cup
    {SavedCredentials(S) : S \in (SUBSET Sessions) \ {{}}}

\* account_info of the last call is kept in current_account (the one
\* caller, line 269, passes self.current_account), what the call returned
\* in console
StoreSave ==
    /\ pc = "menu"
    /\ \E a \in Accounts, step \in SaveSteps :
         /\ current_account' = a
         /\ credentials' = SaveCredentials(credentials, a, step)
         /\ console' = IF SaveCredentialsReturns(credentials, step)
                        THEN "True" ELSE "Failed to save credentials"
    /\ UNCHANGED <<mode, pc, cli_session, client, orphaned, settings,
                   session_files, links_file, member, runVars, outVars,
                   cancelled>>

InitStore ==
    /\ mode = "interactive" /\ pc = "menu"
    /\ cli_session = NoSession
    /\ client = NoClient /\ current_account = NoAccount
    /\ orphaned = {}
    /\ credentials \in StoreFiles
    /\ settings = NoSettings
    /\ session_files = {}
    /\ links_file = [exists |-> FALSE, lines |-> <<>>]
    /\ member = {}
    /\ base_interval = 5 /\ randomize = TRUE
    /\ InitRun

NextStore ==
    \/ StoreSave

SpecStore == InitStore /\ [][NextStore]_vars

\* C24: when save_credentials(a) has returned True, get_credentials of
\* a.session_name gives an AccountInfo equal to a in every field; for a
\* session name without an entry, and for any name when credentials.json
\* is missing or cannot be read, get_credentials gives None
C24_RoundTrip ==
    /\ console = "True" =>
          GetCredentials(credentials, current_account.session_name)
             = current_account
    /\ \A s \in Sessions :
          (~credentials.exists \/ ~credentials.valid
             \/ s \notin DOMAIN credentials.entries)
          => GetCredentials(credentials, s) = NoAccount

C24_Witness ==
    /\ console = "True"
    /\ current_account.last_used.microsecond = 5
    /\ current_account.phone = NoneStr
    /\ GetCredentials(credentials, SessionB) = NoAccount

\* C30: a call of save_credentials(a) leaves the entry of every other
\* session name as it was, and a call that returns False leaves
\* credentials.json as it was
C30_OnlyOwnEntry ==
    [][/\ \A s \in SavedSessions(credentials) :
            s # current_account'.session_name =>
               /\ s \in SavedSessions(credentials')
               /\ credentials'.entries[s] = credentials.entries[s]
       /\ console' = "Failed to save credentials" =>
            credentials' = credentials]_vars

----------------------------------------------------------------------------
(* The account operations of the menu on their own: login, delete, exit   *)

\* a session called "default", and the global setting default_interval
SessionDefault == <<"d", "e", "f", "a", "u", "l", "t">>
KeyDefault == SessionDefault \o <<"_", "i", "n", "t", "e", "r", "v", "a", "l">>

\* what "Enter session name to delete" can be answered
TypedNames == Sessions \cup {SessionDefault}

AccountSettings == [k \in {KeyA, KeyB, KeyGlobal, KeyDefault} |-> "v"]

\* the name typed is any text
MenuManageDeleteTyped ==
    /\ mode = "interactive" /\ pc = "menu"
    /\ ManageDelete(TypedNames)

InitAccounts ==
    /\ mode = "interactive" /\ pc = "menu"
    /\ cli_session = NoSession
    /\ client = NoClient /\ current_account = NoAccount
    /\ orphaned = {}
    /\ credentials = NoCredentials
    /\ settings = AccountSettings
    /\ session_files = {}
    /\ links_file = [exists |-> FALSE, lines |-> <<>>]
    /\ member = {}
    /\ base_interval = 5 /\ randomize = TRUE
    /\ InitRun

NextAccounts ==
    \/ MenuLogin
    \/ MenuManageDeleteTyped
    \/ Continue
    \/ MenuExit
    \/ MenuInterrupt

SpecAccounts == InitAccounts /\ [][NextAccounts]_vars

\* C26: whenever current_account is set, the client the application holds
\* is the session of that account
C26_ClientIsCurrentAccount ==
    current_account # NoAccount =>
       HasClient /\ client.session = current_account.session_name

\* the session a settings key belongs to by its name (NoSession: a global
\* setting)
KeyOwner(k) ==
    IF k = KeyA THEN SessionA ELSE IF k = KeyB THEN SessionB ELSE NoSession

\* C27: a delete_account(s) that reports success has left the credentials
\* of every other session and every settings key that is not a key of
\* session s as they were
C27_DeleteFrame ==
    [][\A s \in TypedNames :
         console' = DeletedMessage(s) /\ pc = "menu" =>
            /\ \A t \in SavedSessions(credentials) \ {s} :
                  GetCredentials(credentials', t) = GetCredentials(credentials, t)
            /\ \A k \in DOMAIN settings :
                  KeyOwner(k) # s =>
                     k \in DOMAIN settings' /\ settings'[k] = settings[k]]_vars

ExitChosen ==
    pc = "exit" /\ console = "Thank you for using NiftyPool Enhanced!"

\* C29: when the loop is left through the Exit choice, no client that a
\* login connected is still connected, neither the one the application
\* holds nor one that a later login replaced
C29_NoClientLeftConnected ==
    ExitChosen => ~client.connected /\ orphaned = {}

====
